---- MODULE Spec2Model ----
(***************************************************************************)
(* Model of bseuParser.py: a scraper that fetches a staff index page,      *)
(* extracts the links to the personal pages, fetches every personal page   *)
(* and normalizes name, image and degree into one record per staff member. *)
(*                                                                         *)
(* A Python str is a sequence of one-character strings.  The single        *)
(* character U+00A0 (no-break space) is written "NBSP".  The Cyrillic      *)
(* degree labels of transform_degree are written in Latin transliteration  *)
(* (one Latin letter per Cyrillic letter), because the module's strings    *)
(* are ASCII (soft sign as j, sha as q, short i as y); letter case is kept,  *)
(* so lower() is modelled on the letters.                                   *)
(***************************************************************************)
EXTENDS Integers, Sequences, FiniteSets, TLC

VARIABLES
    pc,            \* position of Parser.run
    options,       \* self.options['file_path']
    inflight,      \* HTTP requests issued and not yet answered
    requests,      \* every URL requested so far, in order (history)
    fetched,       \* every response received so far, in order (history)
    staff_links,   \* run(): staff_links
    pos,           \* get_personal_data(): how many links the for loop has taken
    results,       \* run(): results (the local list)
    self_results,  \* self.results
    files,         \* every file written so far, in order
    error,         \* the exception that left run(), with the place that raised it
    fn,            \* the function of the module that is called directly
    fn_pc,         \* position of that call
    fn_arg,        \* its argument
    fn_ret         \* its outcome

vars == <<pc, options, inflight, requests, fetched, staff_links, pos, results,
          self_results, files, error, fn, fn_pc, fn_arg, fn_ret>>

run_vars == <<pc, options, inflight, requests, fetched, staff_links, pos, results,
              self_results, files, error>>

fn_vars == <<fn, fn_pc, fn_arg, fn_ret>>

----------------------------------------------------------------------------
(* Outcomes of a call: a returned value or a raised exception.             *)

Return(v) == [value |-> v]

Raise(e) == [raised |-> e]

IsRaise(r) == "raised" \in DOMAIN r

IsReturn(r) == "value" \in DOMAIN r

----------------------------------------------------------------------------
(* Python str and list built-ins.                                          *)

NBSP == "NBSP"

\* str.isspace() of one character, for the characters the model uses
Whitespace == {" ", "\n", "\t", NBSP}

UpperLetters == <<"A","B","C","D","E","F","G","H","I","J","K","L","M",
                  "N","O","P","Q","R","S","T","U","V","W","X","Y","Z">>

LowerLetters == <<"a","b","c","d","e","f","g","h","i","j","k","l","m",
                  "n","o","p","q","r","s","t","u","v","w","x","y","z">>

lower_char(c) ==
    IF \E k \in 1..Len(UpperLetters) : UpperLetters[k] = c
    THEN LowerLetters[CHOOSE k \in 1..Len(UpperLetters) : UpperLetters[k] = c]
    ELSE c

\* str.lower()
lower(s) == [k \in 1..Len(s) |-> lower_char(s[k])]

\* s[from:] with a 0-based from, as Python slices
SliceFrom(s, from) == SubSeq(s, from + 1, Len(s))

\* the index (1-based) of the first character of s that satisfies / fails
\* to be whitespace, Len(s)+1 when there is none
RECURSIVE SkipWhile(_, _, _)
SkipWhile(s, k, space) ==
    IF k > Len(s) THEN k
    ELSE IF (s[k] \in Whitespace) = space THEN SkipWhile(s, k + 1, space)
    ELSE k

\* str.split() without arguments: the maximal runs of non-whitespace
RECURSIVE split(_)
split(s) ==
    LET b == SkipWhile(s, 1, TRUE)
        e == SkipWhile(s, b, FALSE)
    IN  IF b > Len(s) THEN <<>>
        ELSE <<SubSeq(s, b, e - 1)>> \o split(SubSeq(s, e, Len(s)))

\* sep.join(list)
RECURSIVE join(_, _)
join(sep, list) ==
    IF list = <<>> THEN <<>>
    ELSE IF Len(list) = 1 THEN list[1]
    ELSE list[1] \o sep \o join(sep, Tail(list))

\* str.partition(sep)[0] for a one-character sep
RECURSIVE partition_head(_, _)
partition_head(s, sep) ==
    IF s = <<>> THEN <<>>
    ELSE IF s[1] = sep THEN <<>>
    ELSE <<s[1]>> \o partition_head(Tail(s), sep)

\* list.index(x) for an x that is in the list, 0-based
list_index(list, x) == (CHOOSE k \in 1..Len(list) :
                           list[k] = x /\ \A j \in 1..(k - 1) : list[j] # x) - 1

\* x in list
list_contains(list, x) == \E k \in 1..Len(list) : list[k] = x

\* truth value of a str or a list used as a condition
Truthy(x) == x # <<>>

\* None, and the test for it; every other object is a record without
\* the field none
None == [none |-> TRUE]

IsNone(x) == "none" \in DOMAIN x

----------------------------------------------------------------------------
(* Transformers (src/bseuParser.py, 67-94).                                *)

full_name_parts_third_only(names) ==
    IF Len(names) = 2 THEN Return(Append(names, <<>>))
    ELSE IF Len(names) < 2 THEN Raise("IndexError")
    ELSE Return(<<names[1], names[2], names[3]>>)

full_name_parts_padded(names) ==
    IF Len(names) = 0 THEN Return(<< <<>>, <<>>, <<>> >>)
    ELSE IF Len(names) = 1 THEN Return(<<names[1], <<>>, <<>> >>)
    ELSE Return(<<names[1], names[2], join(<<" ">>, SliceFrom(names, 2))>>)

\* the list names after the if/else of transform_full_name, or the
\* IndexError raised by names[0] / names[1]
full_name_parts(names) ==
    IF Len(names) = 2 THEN Return(Append(names, <<>>))
    ELSE IF Len(names) < 2 THEN Raise("IndexError")
    ELSE Return(<<names[1], names[2], join(<<" ">>, SliceFrom(names, 2))>>)

transform_full_name(full_name) ==
    LET names == full_name_parts(split(full_name))
    IN  IF IsRaise(names) THEN names
        ELSE Return([last_name   |-> names.value[1],
                     first_name  |-> names.value[2],
                     middle_name |-> names.value[3]])

\* the list degrees of transform_degree: prepodavatel', starshiy
\* prepodavatel', docent, professor, assistent
degrees == <<
    <<"p","r","e","p","o","d","a","v","a","t","e","l","j">>,
    <<"s","t","a","r","q","i","y"," ","p","r","e","p","o","d","a","v","a","t","e","l","j">>,
    <<"d","o","c","e","n","t">>,
    <<"p","r","o","f","e","s","s","o","r">>,
    <<"a","s","s","i","s","t","e","n","t">> >>

transform_degree_case_sensitive(degree_string) ==
    IF list_contains(degrees, degree_string)
    THEN list_index(degrees, degree_string)
    ELSE Len(degrees)

transform_degree(degree_string) ==
    IF list_contains(degrees, lower(degree_string))
    THEN list_index(degrees, lower(degree_string))
    ELSE Len(degrees)

----------------------------------------------------------------------------
(* Parsers (src/bseuParser.py, 39-64).                                     *)
(*                                                                         *)
(* An index document is the sequence of its elements that can match        *)
(* find('div', {'id': ...}), in document order; each has its tag name, its *)
(* id and the sequence of the anchors among its descendants.  An anchor is *)
(* its attribute dictionary: [href |-> ...], or [name |-> ...] for an      *)
(* anchor without href.                                                    *)
(* A personal page is [id |-> ..., div |-> ...]: the id of its one div     *)
(* with an id, and what the extraction reads inside that div:              *)
(*   img : None, or the attribute dictionary of the first img              *)
(*   h4  : None, or [text |-> ...]                                         *)
(*   p   : None (no p of class noIndnt), or [br |-> None], or              *)
(*         [br |-> [next_sibling |-> None / [tag |-> ...] / [string |-> ...]]] *)

\* soup.find('div', {'id': div_id}): the first matching element, or None
find_div(soup, div_id) ==
    IF \E k \in 1..Len(soup) : soup[k].name = "div" /\ soup[k].id = div_id
    THEN soup[CHOOSE k \in 1..Len(soup) :
                /\ soup[k].name = "div" /\ soup[k].id = div_id
                /\ \A j \in 1..(k - 1) :
                      ~(soup[j].name = "div" /\ soup[j].id = div_id)]
    ELSE None

RECURSIVE collect_hrefs_unique(_)
collect_hrefs_unique(anchors) ==
    IF anchors = <<>> THEN <<>>
    ELSE LET last == anchors[Len(anchors)]
             before == collect_hrefs_unique(SubSeq(anchors, 1, Len(anchors) - 1))
         IN  IF "href" \in DOMAIN last /\ ~list_contains(before, last.href)
             THEN Append(before, last.href)
             ELSE before

\* the loop of parse_staff_links: the href of every anchor that has one
RECURSIVE collect_hrefs(_)
collect_hrefs(anchors) ==
    IF anchors = <<>> THEN <<>>
    ELSE IF "href" \in DOMAIN anchors[1]
         THEN <<anchors[1].href>> \o collect_hrefs(Tail(anchors))
         ELSE collect_hrefs(Tail(anchors))

parse_staff_links(soup, div_id) ==
    LET div == find_div(soup, div_id)
    IN  IF IsNone(div) THEN Raise("AttributeError")
        ELSE Return(collect_hrefs(div.anchors))

parse_degree_(soup) ==
    IF IsNone(soup.p) THEN Raise("AttributeError")
    ELSE IF IsNone(soup.p.br) THEN Raise("AttributeError")
    ELSE IF IsNone(soup.p.br.next_sibling) THEN Raise("AttributeError")
    ELSE IF "tag" \in DOMAIN soup.p.br.next_sibling THEN Raise("TypeError")
    ELSE Return(partition_head(soup.p.br.next_sibling.string, NBSP))

\* soup.find('div', {'id': div_id}) on a personal page
find_person_div(soup, div_id) == IF soup.id = div_id THEN soup.div ELSE None

parse_personal_page(soup, div_id) ==
    LET div == find_person_div(soup, div_id)
    IN  IF IsNone(div) THEN Raise("AttributeError")
        ELSE IF ~IsNone(div.img) /\ "src" \notin DOMAIN div.img THEN Raise("KeyError")
        ELSE IF IsNone(div.h4) THEN Raise("AttributeError")
        ELSE IF IsRaise(parse_degree_(div)) THEN parse_degree_(div)
        ELSE Return([full_name     |-> div.h4.text,
                     img           |-> IF ~IsNone(div.img) THEN div.img.src ELSE <<>>,
                     degree_string |-> parse_degree_(div).value])

----------------------------------------------------------------------------
(* class Parser (src/bseuParser.py, 97-192).                               *)

base_url == <<"h","t","t","p",":","/","/","w","w","w",".","b","s","e","u",".","b","y","/","P","e","r","s","o","n","a","l","P","a","g","e","s","/","a","l","p","h","a","b","e","t","i","c",".","h","t","m">>

personal_page_prefix == <<"h","t","t","p",":","/","/","w","w","w",".","b","s","e","u",".","b","y">>

staff_div_id == "Pages"

person_div_id == "persinfo"

default_image == <<"h","t","t","p","s",":","/","/","m","y","t","i","m","e","t","a","b","l","e",".","l","i","v","e","/","i","m","a","g","e","s","/","m","a","n","-","u","s","e","r",".","p","n","g">>

personal_image_no_default(img) == personal_page_prefix \o img

\* personal_image of get_personal_page
personal_image(img) ==
    IF Truthy(img) THEN personal_page_prefix \o img ELSE default_image

\* get_personal_page after the fetch: soup is the page fetched
personal_record(soup) ==
    LET parsed == parse_personal_page(soup, person_div_id)
        result == transform_full_name(parsed.value.full_name)
    IN  IF IsRaise(parsed) THEN parsed
        ELSE IF IsRaise(result) THEN result
        ELSE Return([last_name   |-> result.value.last_name,
                     first_name  |-> result.value.first_name,
                     middle_name |-> result.value.middle_name,
                     img         |-> personal_image(parsed.value.img),
                     degree      |-> transform_degree(parsed.value.degree_string)])

\* the url of get_personal_page
personal_page_url(personal_page_suffix) ==
    personal_page_prefix \o personal_page_suffix

\* write(filepath, results): the file written, or the AttributeError of
\* reading self.results before run() has assigned it
write(filepath, results_arg, self_results_now) ==
    IF Truthy(results_arg) THEN Return([path |-> filepath, json |-> results_arg])
    ELSE IF IsNone(self_results_now) THEN Raise("AttributeError")
    ELSE Return([path |-> filepath, json |-> self_results_now.list])

\* if self.options['file_path']: file_path is None (Parser's default),
\* False (the command line's default) or a path
file_path_set(file_path) == file_path \notin {"None", "False"}

results_prepend(list, result) == <<result>> \o list

\* results.append(result)
results_append(list, result) == Append(list, result)

propagate_swallowed(outcome, next_pc) == next_pc

\* no try/except anywhere: an exception raised inside run() leaves run()
propagate(outcome, next_pc) == IF IsRaise(outcome) THEN "failed" ELSE next_pc

generator_eager(pc_now) == pc_now \in {"loop", "profile_wait"}

\* get_personal_data is a generator: the next link is taken only when
\* run()'s for loop asks for the next record
generator_resumes(pc_now) == pc_now = "loop"

----------------------------------------------------------------------------
(* The web as one run sees it.                                             *)

MaxLinks == 3

LinkA == <<"/","a">>

LinkB == <<"/","b">>

Links == {LinkA, LinkB}

LinkLists == UNION {[1..n -> Links] : n \in 0..MaxLinks}

IndexOf(links) ==
    << [name |-> "div", id |-> "Menu", anchors |-> <<[href |-> LinkB]>>],
       [name |-> "div", id |-> staff_div_id,
        anchors |-> [k \in 1..Len(links) |-> [href |-> links[k]]]] >>

IndexWithoutContainer ==
    << [name |-> "div", id |-> "Menu", anchors |-> <<[href |-> LinkA]>>] >>

IndexResponses ==
    {Raise("ConnectionError"), Return(IndexWithoutContainer)}
        \cup {Return(IndexOf(l)) : l \in LinkLists}

Page(img, h4, p) == [id |-> person_div_id, div |-> [img |-> img, h4 |-> h4, p |-> p]]

DegreeP(text) == [br |-> [next_sibling |-> [string |-> text]]]

RunPages == {
    Page([src |-> <<"/","i",".","p","n","g">>], [text |-> <<"L","i"," ","B","o"," "," ","A","l"," ","J","r">>], DegreeP(<<"D","o","c","e","n","t",NBSP,"k",".","n",".">>)),
    Page(None, [text |-> <<"L","i"," ","B","o">>], DegreeP(<<"d","e","k","a","n">>)),
    Page(None, None, DegreeP(<<"d","o","c","e","n","t">>)),
    Page(None, [text |-> <<"L","i">>], DegreeP(<<"d","o","c","e","n","t">>)),
    [id |-> "content", div |-> [img |-> None, h4 |-> [text |-> <<"L","i"," ","B","o">>], p |-> None]] }

PageResponses == {Raise("ConnectionError")} \cup {Return(page) : page \in RunPages}

FilePaths == {"None", "False", "out.json"}

----------------------------------------------------------------------------
(* Parser.run (src/bseuParser.py, 179-192).                                *)

FnIdle ==
    /\ fn = "none"
    /\ fn_pc = "idle"
    /\ fn_arg = None
    /\ fn_ret = None

\* the state after Parser(options=...)
RunConstructed ==
    /\ pc = "start"
    /\ inflight = <<>>
    /\ requests = <<>>
    /\ fetched = <<>>
    /\ staff_links = <<>>
    /\ pos = 0
    /\ results = <<>>
    /\ self_results = None
    /\ files = <<>>
    /\ error = None

Init ==
    /\ RunConstructed
    /\ options \in FilePaths
    /\ FnIdle

\* get_staff_list: the GET of the index page is issued
get_staff_list_request ==
    /\ pc = "start"
    /\ inflight' = Append(inflight, base_url)
    /\ requests' = Append(requests, base_url)
    /\ pc' = "index_wait"
    /\ UNCHANGED <<options, fetched, staff_links, pos, results, self_results,
                   files, error>>
    /\ UNCHANGED fn_vars

\* get_staff_list: the response arrives and the links are extracted;
\* run() sets results = [] and creates the generator
get_staff_list_response ==
    /\ pc = "index_wait"
    /\ \E response \in IndexResponses :
         LET outcome == IF IsRaise(response) THEN response
                        ELSE parse_staff_links(response.value, staff_div_id)
         IN  /\ inflight' = Tail(inflight)
             /\ fetched' = Append(fetched, response)
             /\ staff_links' = IF IsRaise(outcome) THEN staff_links ELSE outcome.value
             /\ error' = IF IsRaise(outcome)
                         THEN [exc |-> outcome.raised, at |-> "get_staff_list"]
                         ELSE error
             /\ pc' = propagate(outcome, "loop")
    /\ UNCHANGED <<options, requests, pos, results, self_results, files>>
    /\ UNCHANGED fn_vars

\* get_personal_data / get_personal_page: the for loop takes the next link
\* and the GET of its page is issued
get_personal_page_request ==
    /\ generator_resumes(pc)
    /\ pos < Len(staff_links)
    /\ inflight' = Append(inflight, personal_page_url(staff_links[pos + 1]))
    /\ requests' = Append(requests, personal_page_url(staff_links[pos + 1]))
    /\ pc' = "profile_wait"
    /\ UNCHANGED <<options, fetched, staff_links, pos, results, self_results,
                   files, error>>
    /\ UNCHANGED fn_vars

\* get_personal_page: the response arrives, the record is built and
\* yielded, and run() appends it
get_personal_page_response ==
    /\ pc = "profile_wait"
    /\ \E response \in PageResponses :
         LET outcome == IF IsRaise(response) THEN response
                        ELSE personal_record(response.value)
         IN  /\ inflight' = Tail(inflight)
             /\ fetched' = Append(fetched, response)
             /\ pos' = pos + 1
             /\ results' = IF IsRaise(outcome) THEN results
                           ELSE results_append(results, outcome.value)
             /\ error' = IF IsRaise(outcome)
                         THEN [exc |-> outcome.raised, at |-> "get_personal_page"]
                         ELSE error
             /\ pc' = propagate(outcome, "loop")
    /\ UNCHANGED <<options, requests, staff_links, self_results, files>>
    /\ UNCHANGED fn_vars

\* the generator is exhausted: the file is written when a path is set,
\* then self.results is assigned
run_finish ==
    /\ pc = "loop"
    /\ pos >= Len(staff_links)
    /\ LET outcome == IF file_path_set(options)
                      THEN write(options, results, self_results)
                      ELSE Return(None)
       IN  /\ files' = IF file_path_set(options) /\ IsReturn(outcome)
                       THEN Append(files, outcome.value) ELSE files
           /\ self_results' = IF IsRaise(outcome) THEN self_results
                              ELSE [list |-> results]
           /\ error' = IF IsRaise(outcome)
                       THEN [exc |-> outcome.raised, at |-> "write"]
                       ELSE error
           /\ pc' = propagate(outcome, "done")
    /\ UNCHANGED <<options, inflight, requests, fetched, staff_links, pos, results>>
    /\ UNCHANGED fn_vars

Next ==
    \/ get_staff_list_request
    \/ get_staff_list_response
    \/ get_personal_page_request
    \/ get_personal_page_response
    \/ run_finish

Spec == Init /\ [][Next]_vars

----------------------------------------------------------------------------
(* Properties of Parser.run.                                               *)

\* what the k-th response led to: the links of the index page, the record
\* of a personal page, or the exception raised on the way
OutcomeOf(k) ==
    IF IsRaise(fetched[k]) THEN fetched[k]
    ELSE IF k = 1 THEN parse_staff_links(fetched[k].value, staff_div_id)
    ELSE personal_record(fetched[k].value)

\* C1: a run that completes without error leaves one record per link of
\* the index page, the i-th record being the one built from the page that
\* the request for the i-th link returned; repeated links included.
C1_RecordsInLinkOrder ==
    pc = "done" =>
        /\ Len(self_results.list) = Len(staff_links)
        /\ Len(fetched) = Len(staff_links) + 1
        /\ \A i \in 1..Len(staff_links) :
              /\ requests[i + 1] = personal_page_prefix \o staff_links[i]
              /\ IsReturn(OutcomeOf(i + 1))
              /\ self_results.list[i] = OutcomeOf(i + 1).value

C1_Witness ==
    /\ pc = "done"
    /\ Len(staff_links) = 3
    /\ staff_links[1] = staff_links[3]
    /\ staff_links[1] # staff_links[2]
    /\ self_results.list[1] # self_results.list[3]
    /\ C1_RecordsInLinkOrder

\* C2: a failure of the index fetch or link extraction, or of the fetch,
\* extraction or normalization of one personal page, ends the run at once
\* with that exception: the failing response is the last one received, no
\* request follows it (none at all after a failed index), no file is
\* written and self.results stays unset.
C2_AllOrNothing ==
    /\ \A k \in 1..Len(fetched) :
          IsRaise(OutcomeOf(k)) =>
              /\ k = Len(fetched)
              /\ ~IsNone(error)
              /\ error.exc = OutcomeOf(k).raised
              /\ error.at = (IF k = 1 THEN "get_staff_list" ELSE "get_personal_page")
    /\ ~IsNone(error) =>
          /\ pc = "failed"
          /\ inflight = <<>>
          /\ Len(requests) = Len(fetched)
          /\ files = <<>>
          /\ IsNone(self_results)
          /\ error.at = "get_staff_list" => requests = <<base_url>>

C2_Witness ==
    /\ pc = "failed"
    /\ error.at = "get_personal_page"
    /\ error.exc = "IndexError"
    /\ Len(results) = 2
    /\ Len(staff_links) = 3
    /\ options = "out.json"
    /\ files = <<>>
    /\ IsNone(self_results)

\* C3: requests are strictly sequential: at most one in flight; the first
\* is the one GET of base_url; a personal page is requested only after the
\* index response gave the links; request k+1 goes to prefix + k-th link
\* and is issued only when the records of the k-1 earlier links are built;
\* a completed run has issued exactly one request per link.
C3_SequentialRequests ==
    /\ Len(inflight) <= 1
    /\ Len(requests) = Len(fetched) + Len(inflight)
    /\ requests # <<>> => requests[1] = base_url
    /\ \A k \in 2..Len(requests) :
          /\ Len(fetched) >= 1 /\ IsReturn(OutcomeOf(1))
          /\ k - 1 <= Len(staff_links)
          /\ requests[k] = personal_page_prefix \o staff_links[k - 1]
          /\ Len(results) >= k - 2
          /\ Len(fetched) >= k - 1
    /\ pc = "done" => Len(requests) = 1 + Len(staff_links)

C3_Witness ==
    /\ pc = "profile_wait"
    /\ Len(requests) = 4
    /\ Len(inflight) = 1
    /\ Len(results) = 2
    /\ requests[2] = requests[4]

\* every fetch and every extraction of the run has succeeded
AllSucceeded ==
    /\ Len(fetched) >= 1
    /\ \A k \in 1..Len(fetched) : IsReturn(OutcomeOf(k))
    /\ Len(fetched) = 1 + Len(staff_links)

\* C10: when every fetch and extraction succeeds and a file path is set,
\* run() ends having written the complete result list to the file exactly
\* once and having stored it in self.results, for every link list, the
\* empty one included.
C10_WrittenOnceWhenAllSucceed ==
    (pc \in {"done", "failed"} /\ file_path_set(options) /\ AllSucceeded) =>
        /\ pc = "done"
        /\ Len(results) = Len(staff_links)
        /\ files = <<[path |-> options, json |-> results]>>
        /\ self_results = [list |-> results]

\* the same, for the runs whose index page gave at least one link
C10_WrittenOnceWhenLinksExist ==
    (pc \in {"done", "failed"} /\ file_path_set(options) /\ AllSucceeded
        /\ staff_links # <<>>) =>
        /\ pc = "done"
        /\ Len(results) = Len(staff_links)
        /\ files = <<[path |-> options, json |-> results]>>
        /\ self_results = [list |-> results]

----------------------------------------------------------------------------
(* Direct calls of the module's functions on inputs drawn from bounded     *)
(* sets.                                                                   *)

\* the run's variables while only a function is called
RunUntouched ==
    /\ RunConstructed
    /\ options = "None"

Called(f) == fn = f /\ fn_pc = "called"

Returned(f) == fn = f /\ fn_pc = "returned"

\* the error classes of the specification's taxonomy, by the Python
\* exception that the code raises
ErrorKind(exc) ==
    CASE exc = "ConnectionError" -> "TransportError"
      [] exc \in {"AttributeError", "TypeError", "KeyError"} -> "StructureError"
      [] exc = "IndexError" -> "ValidationError"
      [] OTHER -> "Other"

----------------------------------------------------------------------------
(* transform_full_name *)

MaxNameLen == 7

NameAlphabet == {"a", "B", " ", "\n"}

NameInputs == UNION {[1..n -> NameAlphabet] : n \in 0..MaxNameLen}

InitName ==
    /\ RunUntouched
    /\ fn = "transform_full_name"
    /\ fn_pc = "called"
    /\ fn_arg \in NameInputs
    /\ fn_ret = None

call_transform_full_name ==
    /\ Called("transform_full_name")
    /\ fn_ret' = transform_full_name(fn_arg)
    /\ fn_pc' = "returned"
    /\ UNCHANGED <<fn, fn_arg>>
    /\ UNCHANGED run_vars

NextName == call_transform_full_name

SpecName == InitName /\ [][NextName]_vars

RECURSIVE SumLen(_)
SumLen(list) == IF list = <<>> THEN 0 ELSE Len(list[1]) + SumLen(Tail(list))

\* text is the tokens joined by single spaces: it splits into the tokens,
\* has one character between neighbours and none around, and every
\* whitespace character in it is a space
JoinedBySingleSpaces(text, tokens) ==
    /\ split(text) = tokens
    /\ Len(text) = SumLen(tokens) + (IF tokens = <<>> THEN 0 ELSE Len(tokens) - 1)
    /\ \A k \in 1..Len(text) : text[k] \in Whitespace => text[k] = " "

\* C4: a full name of n >= 2 whitespace-separated tokens gives last_name =
\* token 0, first_name = token 1 and middle_name = the tokens from index 2
\* on joined by single spaces, which is the empty string when n = 2.
C4_FullNameParts ==
    (Returned("transform_full_name") /\ Len(split(fn_arg)) >= 2) =>
        /\ IsReturn(fn_ret)
        /\ fn_ret.value.last_name = split(fn_arg)[1]
        /\ fn_ret.value.first_name = split(fn_arg)[2]
        /\ JoinedBySingleSpaces(fn_ret.value.middle_name, SliceFrom(split(fn_arg), 2))
        /\ Len(split(fn_arg)) = 2 => fn_ret.value.middle_name = <<>>

C4_Witness ==
    /\ Returned("transform_full_name")
    /\ Len(split(fn_arg)) = 4
    /\ fn_arg[2] = "\n"
    /\ fn_ret.value.last_name = <<"B">>
    /\ fn_ret.value.first_name = <<"a">>
    /\ fn_ret.value.middle_name = <<"a", " ", "B">>

\* C5: a full name of fewer than 2 whitespace-separated tokens (empty,
\* whitespace only, one token) makes the normalization fail: the
\* IndexError of names[0] / names[1], the taxonomy's ValidationError; no
\* record is returned.
C5_ShortNameFails ==
    (Returned("transform_full_name") /\ Len(split(fn_arg)) < 2) =>
        /\ IsRaise(fn_ret)
        /\ ~IsReturn(fn_ret)
        /\ fn_ret.raised = "IndexError"
        /\ ErrorKind(fn_ret.raised) = "ValidationError"

C5_Witness ==
    /\ Returned("transform_full_name")
    /\ split(fn_arg) = << <<"B", "a">> >>
    /\ fn_arg[1] = " "
    /\ IsRaise(fn_ret)

----------------------------------------------------------------------------
(* transform_degree *)

MaxPad == 1

upper_char(c) ==
    IF \E k \in 1..Len(LowerLetters) : LowerLetters[k] = c
    THEN UpperLetters[CHOOSE k \in 1..Len(LowerLetters) : LowerLetters[k] = c]
    ELSE c

Capitalized(s) == [k \in 1..Len(s) |-> IF k = 1 THEN upper_char(s[k]) ELSE s[k]]

UpperCased(s) == [k \in 1..Len(s) |-> upper_char(s[k])]

Alternating(s) == [k \in 1..Len(s) |-> IF k % 2 = 0 THEN upper_char(s[k]) ELSE s[k]]

Pads == UNION {[1..n -> {" ", "\n"}] : n \in 0..MaxPad}

Padded(texts) == {l \o t \o r : l \in Pads, t \in texts, r \in Pads}

UnknownLabels == { <<>>, <<"d","e","k","a","n">>, <<"d","o","c","e","n">>, <<"p","r","e","p","o","d","a","v","a","t","e","l","j"," ","s","t","a","r","q","i","y">> }

DegreeInputs ==
    Padded(UNION {{b, Capitalized(b), UpperCased(b), Alternating(b)} :
                    b \in {degrees[k] : k \in 1..Len(degrees)} \cup UnknownLabels})

InitDegree ==
    /\ RunUntouched
    /\ fn = "transform_degree"
    /\ fn_pc = "called"
    /\ fn_arg \in DegreeInputs
    /\ fn_ret = None

call_transform_degree ==
    /\ Called("transform_degree")
    /\ fn_ret' = Return(transform_degree(fn_arg))
    /\ fn_pc' = "returned"
    /\ UNCHANGED <<fn, fn_arg>>
    /\ UNCHANGED run_vars

NextDegree == call_transform_degree

SpecDegree == InitDegree /\ [][NextDegree]_vars

\* the two characters are the same, or the two cases of one letter
SameLetter(c, d) ==
    \/ c = d
    \/ \E k \in 1..Len(UpperLetters) :
          {c, d} = {UpperLetters[k], LowerLetters[k]}

EqualIgnoringCase(s, t) ==
    /\ Len(s) = Len(t)
    /\ \A k \in 1..Len(s) : SameLetter(s[k], t[k])

\* C6: transform_degree returns the 0-based position of the label in the
\* list of the 5 known labels when the text equals one of them ignoring
\* letter case, and 5 otherwise; the result is always in 0..5.
C6_DegreeIndex ==
    Returned("transform_degree") =>
        /\ Len(degrees) = 5
        /\ fn_ret.value \in 0..5
        /\ \A k \in 1..5 :
              EqualIgnoringCase(fn_arg, degrees[k]) => fn_ret.value = k - 1
        /\ (\A k \in 1..5 : ~EqualIgnoringCase(fn_arg, degrees[k]))
              => fn_ret.value = 5

C6_Witness ==
    /\ Returned("transform_degree")
    /\ fn_arg = Capitalized(degrees[2])
    /\ fn_arg # degrees[2]
    /\ fn_ret.value = 1

----------------------------------------------------------------------------
(* get_personal_page on the page its fetch returned *)

ProfileImages == {None, [alt |-> <<"x">>], [src |-> <<>>], [src |-> <<"/","i",".","p","n","g">>]}

ProfileNames == {None} \cup {[text |-> t] : t \in {<<>>, <<"L","i">>, <<"L","i"," ","B","o">>, <<"L","i"," ","B","o"," "," ","A","l"," ","J","r">>}}

ProfileLabels == {degrees[2], degrees[3], Capitalized(degrees[3]), <<"d","e","k","a","n">>}

ProfileTails == {<<>>, <<NBSP>> \o <<"k",".","n",".">>}

ProfileParagraphs ==
    {None, [br |-> None], [br |-> [next_sibling |-> None]],
     [br |-> [next_sibling |-> [tag |-> "b"]]]}
        \cup {DegreeP(t \o tail) : t \in Padded(ProfileLabels), tail \in ProfileTails}

ProfilePages ==
    {[id |-> id, div |-> [img |-> img, h4 |-> h4, p |-> p]] :
        id \in {person_div_id, "content"}, img \in ProfileImages,
        h4 \in ProfileNames, p \in ProfileParagraphs}

InitProfile ==
    /\ RunUntouched
    /\ fn = "get_personal_page"
    /\ fn_pc = "called"
    /\ fn_arg \in ProfilePages
    /\ fn_ret = None

call_get_personal_page ==
    /\ Called("get_personal_page")
    /\ fn_ret' = personal_record(fn_arg)
    /\ fn_pc' = "returned"
    /\ UNCHANGED <<fn, fn_arg>>
    /\ UNCHANGED run_vars

NextProfile == call_get_personal_page

SpecProfile == InitProfile /\ [][NextProfile]_vars

\* str.strip(): s without its leading and trailing whitespace
Trimmed(s) ==
    LET first == SkipWhile(s, 1, TRUE)
        keep == {k \in 1..Len(s) : s[k] \notin Whitespace}
    IN  IF keep = {} THEN <<>>
        ELSE SubSeq(s, first, CHOOSE k \in keep : \A j \in keep : j <= k)

\* the text node after the line break of the degree paragraph, up to the
\* first no-break space
DegreeTextOf(page) ==
    partition_head(page.div.p.br.next_sibling.string, NBSP)

\* C7: the degree lookup is done on the trimmed label: a degree text that
\* equals a known label except for leading or trailing whitespace is given
\* that label's index, not 5.
C7_DegreeLookupTrims ==
    (Returned("get_personal_page") /\ IsReturn(fn_ret)) =>
        \A k \in 1..Len(degrees) :
            Trimmed(DegreeTextOf(fn_arg)) = degrees[k]
                => fn_ret.value.degree = k - 1

\* what the code does instead: a label with whitespace around it is
\* looked up as it is and gets the value for unrecognized labels
C7_UntrimmedIsUnrecognized ==
    (Returned("get_personal_page") /\ IsReturn(fn_ret)) =>
        \A k \in 1..Len(degrees) :
            (/\ Trimmed(DegreeTextOf(fn_arg)) = degrees[k]
             /\ DegreeTextOf(fn_arg) # degrees[k])
                => fn_ret.value.degree = Len(degrees)

\* the image path get_personal_page extracts from the page
ImagePathOf(page) ==
    IF IsNone(page.div.img) THEN <<>> ELSE page.div.img.src

\* C8: the record's img is the default placeholder URL when the info
\* container has no image element (the extracted image path is empty), and
\* the site prefix followed by the extracted path otherwise; it is never
\* the empty string.
C8_ImageOrDefault ==
    (Returned("get_personal_page") /\ IsReturn(fn_ret)) =>
        /\ IsNone(fn_arg.div.img) => fn_ret.value.img = default_image
        /\ ImagePathOf(fn_arg) = <<>> => fn_ret.value.img = default_image
        /\ ImagePathOf(fn_arg) # <<>> =>
              fn_ret.value.img = personal_page_prefix \o ImagePathOf(fn_arg)
        /\ fn_ret.value.img # <<>>

C8_Witness ==
    /\ Returned("get_personal_page")
    /\ IsReturn(fn_ret)
    /\ IsNone(fn_arg.div.img)
    /\ fn_ret.value.img = default_image
    /\ fn_ret.value.img # personal_page_prefix

C8_WitnessWithImage ==
    /\ Returned("get_personal_page")
    /\ IsReturn(fn_ret)
    /\ ~IsNone(fn_arg.div.img)
    /\ fn_ret.value.img = personal_page_prefix \o <<"/","i",".","p","n","g">>

----------------------------------------------------------------------------
(* parse_staff_links *)

MaxDivs == 2

MaxAnchors == 3

ElementKinds == {[name |-> "div", id |-> staff_div_id],
                 [name |-> "div", id |-> "Menu"],
                 [name |-> "span", id |-> staff_div_id]}

AnchorChoices == {[href |-> LinkA], [href |-> LinkB], [name |-> <<"t","o","p">>]}

AnchorLists(n) == UNION {[1..k -> AnchorChoices] : k \in 0..n}

\* the documents of at most d elements with at most a anchors in all
RECURSIVE Documents(_, _)
Documents(d, a) ==
    IF d = 0 THEN {<<>>}
    ELSE {<<>>} \cup
         UNION {{<<[name |-> e.name, id |-> e.id, anchors |-> al]>> \o rest :
                    e \in ElementKinds, rest \in Documents(d - 1, a - Len(al))} :
                al \in AnchorLists(a)}

InitLinks ==
    /\ RunUntouched
    /\ fn = "parse_staff_links"
    /\ fn_pc = "called"
    /\ fn_arg \in Documents(MaxDivs, MaxAnchors)
    /\ fn_ret = None

call_parse_staff_links ==
    /\ Called("parse_staff_links")
    /\ fn_ret' = parse_staff_links(fn_arg, staff_div_id)
    /\ fn_pc' = "returned"
    /\ UNCHANGED <<fn, fn_arg>>
    /\ UNCHANGED run_vars

NextLinks == call_parse_staff_links

SpecLinks == InitLinks /\ [][NextLinks]_vars

IsContainer(e) == e.name = "div" /\ e.id = staff_div_id

\* the positions of the anchors that carry href
WithHref(anchors) == {k \in 1..Len(anchors) : "href" \in DOMAIN anchors[k]}

\* links is the hrefs of the anchors carrying one, in document order:
\* the j-th link is the href of the j-th such anchor
LinksOf(links, anchors) ==
    /\ Len(links) = Cardinality(WithHref(anchors))
    /\ \A k \in WithHref(anchors) :
          links[Cardinality({j \in WithHref(anchors) : j <= k})] = anchors[k].href

\* C9: for a document that has the staff container, parse_staff_links
\* returns the link targets of the container's anchors that carry one, in
\* document order, anchors without one skipped and duplicates kept; with
\* no container it fails (AttributeError, the taxonomy's StructureError)
\* and returns no list.
C9_StaffLinks ==
    Returned("parse_staff_links") =>
        IF \E k \in 1..Len(fn_arg) : IsContainer(fn_arg[k])
        THEN /\ IsReturn(fn_ret)
             /\ \E k \in 1..Len(fn_arg) :
                   /\ IsContainer(fn_arg[k])
                   /\ \A j \in 1..(k - 1) : ~IsContainer(fn_arg[j])
                   /\ LinksOf(fn_ret.value, fn_arg[k].anchors)
        ELSE /\ IsRaise(fn_ret)
             /\ ~IsReturn(fn_ret)
             /\ ErrorKind(fn_ret.raised) = "StructureError"

C9_Witness ==
    /\ Returned("parse_staff_links")
    /\ Len(fn_arg) = 1
    /\ IsContainer(fn_arg[1])
    /\ fn_arg[1].anchors = <<[href |-> LinkA], [name |-> <<"t","o","p">>], [href |-> LinkA]>>
    /\ fn_ret = Return(<<LinkA, LinkA>>)

C9_WitnessNoContainer ==
    /\ Returned("parse_staff_links")
    /\ Len(fn_arg) = 2
    /\ fn_arg[1].name = "span"
    /\ fn_arg[2].id = "Menu"
    /\ fn_ret = Raise("AttributeError")

====
